---- MODULE Spec2Model ----
(***************************************************************************)
(* Model of AudioPlayer (src/src/media_handler.py): the playback session   *)
(* controller, the stream task spawned by start_audio_playback and the     *)
(* output-device callback it registers.                                    *)
(*                                                                         *)
(* Threads of the program that appear here:                                *)
(*   - the controlling thread (the main loop of Main_player.py), which     *)
(*     calls start_audio_playback, pause_audio, unpause_audio, seek and    *)
(*     set_volume, one call at a time;                                     *)
(*   - one stream task per start_audio_playback call                       *)
(*     (start_audio_stream_thread);                                        *)
(*   - the device thread of each open stream, which runs callback.         *)
(*   - the keyboard listener of Main_player.py, which calls toggle_pause.  *)
(* The bodies of "with self.lock:" are straight-line code, so each is one  *)
(* atomic step; everything outside the lock is split at every read or      *)
(* write of shared state.                                                  *)
(* The widgets of the main loop that drive the player are modelled too:    *)
(* the playback button, the track list and the shuffle flag.               *)
(***************************************************************************)
EXTENDS Integers, FiniteSets, Sequences, TLC

VARIABLES
    audio_path,         \* self.audio_path
    audio_frames,       \* self.audio_frames  (total_frames of the spec)
    audio_sample_rate,  \* self.audio_sample_rate
    current_frame,      \* self.current_frame
    volume,             \* self.volume, in hundredths
    is_playback_unpaused,  \* self.is_playback_unpaused (threading.Event)
    is_stopped,         \* self.is_stopped (threading.Event)
    no_audio_loaded,    \* self.no_audio_loaded (threading.Event)
    is_window_focused,  \* self.is_window_focused (threading.Event)
    display_frame_data, \* self.display_frame_data
    ctl,                \* the controlling thread inside start_audio_playback
    task,               \* the living stream tasks, oldest first
    crashed,            \* a stream task died inside its finally block (history)
    paused_reads,       \* chunks read since the pause in force began (history)
    stopped_reads,      \* chunks read since is_stopped was set (history)
    lock,               \* self.lock: the task whose callback holds it, or Free
    playback_button,    \* playback_button.display_image (Main_player.py)
    media_display,      \* the ButtonList of tracks (Main_player.py)
    is_shuffling,       \* is_shuffling (Main_player.py)
    last                \* the step that led to this state (history)

vars == <<audio_path, audio_frames, audio_sample_rate, current_frame, volume,
          is_playback_unpaused, is_stopped, no_audio_loaded, is_window_focused,
          display_frame_data, ctl, task, crashed, paused_reads,
          stopped_reads, lock, playback_button, media_display, is_shuffling,
          last>>

\* The fields of the session (all but the threads' positions and history).
session == <<audio_path, audio_frames, audio_sample_rate, current_frame, volume,
             is_playback_unpaused, is_stopped, no_audio_loaded,
             is_window_focused, display_frame_data>>

\* The widgets of Main_player.py.
widgets == <<playback_button, media_display, is_shuffling>>

-----------------------------------------------------------------------------
(* Bounds of the model. *)

\* Stream tasks that may be alive at once.
MaxTasks == 2
\* Frames in file "A"; file "B" is about half as long, of odd length.
FramesA == 1000
\* Frames the device requests per callback (chunk_size of start_audio_playback):
\* file "A" is two chunks long.
ChunkSize == FramesA \div 2

Slots == 1..MaxTasks
\* The tasks alive now.
Live == DOMAIN task
Paths == {"A", "B"}
NoPath == "None"
\* self.lock held by nobody.
Free == 0
\* A path that names no file sf.SoundFile can open.
BadPath == "X"

\* What sf.info reports for a file.
FileFrames(p) == IF p = "A" THEN FramesA ELSE (FramesA \div 2) + 1
FileRate(p) == IF p = "A" THEN 2 ELSE 3

\* Positions handed to seek(): rationals <<numerator, denominator>>.
Fractions == {<<0 - 1, 2>>, <<0, 1>>, <<1, 2>>, <<1, 1>>, <<3, 2>>}
FramePositions == {<<0 - 5, 1>>, <<0 - 1, 2>>, <<FramesA \div 2, 1>>,
                   <<FramesA + (FramesA \div 2), 1>>}
\* Volumes handed to set_volume(), in hundredths.
Volumes == {0 - 100, 50, 500}
\* Volumes handed to AudioPlayer(volume = ...), in hundredths (default 100).
InitVolumes == {0 - 100, 100, 500}

\* A display buffer: the file it was read from and the frame it starts at.
\* NoBuffer is None.
NoBuffer == [file |-> NoPath, at |-> 0]

-----------------------------------------------------------------------------
(* Pure helpers. *)

\* int(x) of Python for the rational n/d, d > 0: truncation toward zero.
PyInt(n, d) == IF n >= 0 THEN n \div d ELSE 0 - ((0 - n) \div d)

\* Lines 217-222 rounding up where int() truncates.
SeekTargetRoundUp(pos, pct) ==
    IF pct THEN 0 - ((0 - (audio_frames * pos[1])) \div pos[2])
           ELSE 0 - ((0 - pos[1]) \div pos[2])

\* The cursor seek(position, percentage) computes (lines 217-222).
SeekTarget(pos, pct) ==
    IF pct THEN PyInt(audio_frames * pos[1], pos[2])
           ELSE PyInt(pos[1], pos[2])

\* Line 231 with the upper limit left out.
ClampVolumeBelowOnly(v) == IF v < 0 THEN 0 ELSE v

\* min(max(0, target_volume), 1), in hundredths (line 231).
ClampVolume(v) == IF v < 0 THEN 0 ELSE IF v > 100 THEN 100 ELSE v

\* A task as threading.Thread(...).start() creates it (lines 181-182).
\* held (history): the event was clear when the task was spawned and has not
\* been set since.  fpos is the read position of the task's open file and
\* len the length of data, the chunk of line 148; both are followed only
\* where the body of the callback is taken line by line, since line 146
\* positions the file anew in every invocation.
NewTask == [pc |-> "t134", file |-> NoPath, p |-> FALSE, active |-> FALSE,
            cb |-> "off", reads |-> 0, seeked |-> FALSE, held |-> FALSE,
            fpos |-> 0, len |-> 0]

\* Event.set() without the notification of the waiting threads.
SetWithoutNotify(tasks) ==
    [i \in DOMAIN tasks |-> [tasks[i] EXCEPT !.held = FALSE]]

\* The tasks after is_playback_unpaused.set(): every callback blocked in
\* is_playback_unpaused.wait() (line 141) is notified and will return from it.
OnSet(tasks) ==
    [i \in DOMAIN tasks |->
        [tasks[i] EXCEPT !.held = FALSE,
                         !.cb = IF @ = "blocked" THEN "woken" ELSE @]]

\* The tasks without task i, whose thread has ended.
Without(i) ==
    [j \in 1..(Len(task) - 1) |-> IF j < i THEN task[j] ELSE task[j + 1]]

\* History records: the operation, the task it belongs to, the arguments of a
\* seek (pos, pct), and for a chunk read whether it was the task's first read
\* (first), whether a seek preceded it (seeked) and how it ended (res).
\* scale is the volume a chunk was multiplied by (line 164), ret the value a
\* call returned.
Step(op, t, pos, pct, first, seeked, res) ==
    [op |-> op, t |-> t, pos |-> pos, pct |-> pct, first |-> first,
     seeked |-> seeked, res |-> res, scale |-> 0, ret |-> NoBuffer]

Plain(op, t) == Step(op, t, <<0, 1>>, FALSE, FALSE, FALSE, "")

\* A step of task t that raised an exception.
Raised(op, t) == Step(op, t, <<0, 1>>, FALSE, FALSE, FALSE, "raise")

\* Task r on entering its finally block with p bound (lines 176-177): the file
\* is closed and the stream is gone.
Cleanup(r) == [NewTask EXCEPT !.pc = "f178", !.p = r.p]

-----------------------------------------------------------------------------
\* AudioPlayer(volume = v), lines 48-73.
Construct(v) ==
    /\ audio_path = NoPath
    /\ audio_frames = 0
    /\ audio_sample_rate = 0
    /\ current_frame = 0
    /\ volume = v
    /\ is_playback_unpaused = TRUE
    /\ is_stopped = FALSE
    /\ no_audio_loaded = TRUE
    /\ is_window_focused = FALSE
    /\ display_frame_data = NoBuffer
    /\ ctl = [pc |-> "idle", path |-> NoPath, is_unpaused |-> TRUE,
              swap |-> FALSE]
    /\ task = <<>>
    /\ crashed = FALSE
    /\ paused_reads = 0
    /\ stopped_reads = 0
    /\ lock = Free
    /\ last = Plain("init", 0)

\* The widgets as Main_player.py creates them: the playback button showing
\* its default image (line 109, UI_Widgets.py line 44), the track list empty
\* (line 138, UI_Widgets.py lines 273-275), shuffling off (line 24).
WidgetsInit ==
    /\ playback_button = "default"
    /\ media_display = [button_dict |-> [k \in {} |-> "default"],
                        sorted_keys |-> <<>>, toggled_buttons |-> {}]
    /\ is_shuffling = FALSE

\* The player as Main_player.py creates it (line 154): the default volume.
Init == Construct(100) /\ WidgetsInit

\* The player created with any volume.
InitAnyVolume == (\E v \in InitVolumes : Construct(v)) /\ WidgetsInit

-----------------------------------------------------------------------------
(* start_audio_playback, lines 117-130 and 181-182, on the controlling     *)
(* thread.  ctl.pc names the line the thread is about to execute.          *)

\* A stream is open on the device and its callback is being invoked.
Streaming == \E t \in Live : task[t].active

\* The controlling thread enters start_audio_playback(path) and executes
\* line 117: self.is_stopped.set()
StartEnter(path) ==
    /\ is_stopped' = TRUE
    /\ ctl' = [pc |-> "s119", path |-> path, is_unpaused |-> TRUE,
               swap |-> (Streaming /\ ~is_playback_unpaused)]
    /\ UNCHANGED <<audio_path, audio_frames, audio_sample_rate, current_frame,
                   volume, is_playback_unpaused, no_audio_loaded, task,
                   crashed, is_window_focused, display_frame_data,
                   paused_reads, stopped_reads, lock>>

\* start_audio_playback(path) called.
StartCall(path) ==
    /\ ctl.pc = "idle"
    /\ StartEnter(path)
    /\ last' = Plain("start", 0)
    /\ UNCHANGED widgets

\* Line 119: is_unpaused = self.is_playback_unpaused.is_set()
StartReadPause ==
    /\ ctl.pc = "s119"
    /\ ctl' = [ctl EXCEPT !.pc = "s120", !.is_unpaused = is_playback_unpaused]
    /\ last' = Plain("s119", 0)
    /\ UNCHANGED <<session, task, crashed, paused_reads, stopped_reads, lock>>
    /\ UNCHANGED widgets

\* Line 120 with the forced unpause left out.
StartNoForceUnpause ==
    /\ ctl.pc = "s120"
    /\ ctl' = [ctl EXCEPT !.pc = "s122"]
    /\ last' = Plain("s120", 0)
    /\ UNCHANGED <<session, task, crashed, paused_reads, stopped_reads, lock>>
    /\ UNCHANGED widgets

\* Line 120: self.is_playback_unpaused.set()
StartForceUnpause ==
    /\ ctl.pc = "s120"
    /\ is_playback_unpaused' = TRUE
    /\ task' = OnSet(task)
    /\ ctl' = [ctl EXCEPT !.pc = "s122"]
    /\ last' = Plain("s120", 0)
    /\ UNCHANGED <<audio_path, audio_frames, audio_sample_rate, current_frame,
                   volume, is_stopped, no_audio_loaded, crashed,
                   is_window_focused, display_frame_data, paused_reads,
                   stopped_reads, lock>>
    /\ UNCHANGED widgets

\* Line 122: self.no_audio_loaded.wait()
StartWait ==
    /\ ctl.pc = "s122"
    /\ no_audio_loaded
    /\ ctl' = [ctl EXCEPT !.pc = "s124"]
    /\ last' = Plain("s122", 0)
    /\ UNCHANGED <<session, task, crashed, paused_reads, stopped_reads, lock>>
    /\ UNCHANGED widgets

\* Lines 123-125 left out: the event stays set.
StartNoRestore ==
    /\ ctl.pc = "s124"
    /\ ctl' = [ctl EXCEPT !.pc = "s126"]
    /\ last' = Plain("s124", 0)
    /\ UNCHANGED <<session, task, crashed, paused_reads, stopped_reads, lock>>
    /\ UNCHANGED widgets

\* Lines 123-125: finally: if not is_unpaused: self.is_playback_unpaused.clear()
StartRestorePause ==
    /\ ctl.pc = "s124"
    /\ is_playback_unpaused' =
         IF ctl.is_unpaused THEN is_playback_unpaused ELSE FALSE
    /\ ctl' = [ctl EXCEPT !.pc = "s126"]
    /\ last' = Plain("s124", 0)
    /\ UNCHANGED <<audio_path, audio_frames, audio_sample_rate, current_frame,
                   volume, is_stopped, no_audio_loaded, task, crashed,
                   is_window_focused, display_frame_data, paused_reads,
                   stopped_reads, lock>>
    /\ UNCHANGED widgets

\* Lines 126-127: if audio_path is not None: self.audio_path = audio_path
StartInstallPath ==
    /\ ctl.pc = "s126"
    /\ audio_path' = IF ctl.path # NoPath THEN ctl.path ELSE audio_path
    /\ ctl' = [ctl EXCEPT !.pc = "s129"]
    /\ last' = Plain("s126", 0)
    /\ UNCHANGED <<audio_frames, audio_sample_rate, current_frame, volume,
                   is_playback_unpaused, is_stopped, no_audio_loaded, task,
                   crashed, is_window_focused, display_frame_data,
                   paused_reads, stopped_reads, lock>>
    /\ UNCHANGED widgets

\* Line 129: self.no_audio_loaded.clear()
StartClearNoAudio ==
    /\ ctl.pc = "s129"
    /\ no_audio_loaded' = FALSE
    /\ ctl' = [ctl EXCEPT !.pc = "s130"]
    /\ last' = Plain("s129", 0)
    /\ UNCHANGED <<audio_path, audio_frames, audio_sample_rate, current_frame,
                   volume, is_playback_unpaused, is_stopped, task, crashed,
                   is_window_focused, display_frame_data, paused_reads,
                   stopped_reads, lock>>
    /\ UNCHANGED widgets

\* Line 130: self.is_stopped.clear()
StartClearStopped ==
    /\ ctl.pc = "s130"
    /\ is_stopped' = FALSE
    /\ stopped_reads' = 0
    /\ ctl' = [ctl EXCEPT !.pc = "s181"]
    /\ last' = Plain("s130", 0)
    /\ UNCHANGED <<audio_path, audio_frames, audio_sample_rate, current_frame,
                   volume, is_playback_unpaused, no_audio_loaded, task,
                   crashed, is_window_focused, display_frame_data,
                   paused_reads, lock>>
    /\ UNCHANGED widgets

\* Lines 181-182: threading.Thread(target=start_audio_stream_thread).start()
StartSpawn ==
    /\ ctl.pc = "s181"
    /\ Len(task) < MaxTasks
    /\ task' = Append(task, [NewTask EXCEPT !.held = ~is_playback_unpaused])
    /\ ctl' = [ctl EXCEPT !.pc = "idle"]
    /\ last' = Plain("spawn", Len(task) + 1)
    /\ UNCHANGED <<session, crashed, paused_reads, stopped_reads, lock>>
    /\ UNCHANGED widgets

\* The steps of start_audio_playback after the call itself.
StartStep ==
    \/ StartReadPause
    \/ StartForceUnpause
    \/ StartWait
    \/ StartRestorePause
    \/ StartInstallPath
    \/ StartClearNoAudio
    \/ StartClearStopped
    \/ StartSpawn

-----------------------------------------------------------------------------
(* The other operations of the controlling thread. *)

\* Lines 188-189 and 195-196 without the test of audio_frames.
PauseUnguarded(target) == target

\* Lines 188-189 and 195-196 setting the event to the opposite of its state.
PauseFlips(target) == ~is_playback_unpaused

\* The event after pause_audio (target FALSE) or unpause_audio (target TRUE):
\* "if self.audio_frames > 0", lines 188 and 195.
PauseResult(target) ==
    IF audio_frames > 0 THEN target ELSE is_playback_unpaused

\* A pause is in force: the event is clear, or a start_audio_playback call
\* has set it for the time of its wait and will clear it again (lines 119-125).
PauseInForce ==
    \/ ~is_playback_unpaused
    \/ ctl.pc \in {"s122", "s124"} /\ ~ctl.is_unpaused

\* The effect of pause_audio and unpause_audio on the session.
PauseEffect(target) ==
    /\ is_playback_unpaused' = PauseResult(target)
    /\ paused_reads' = IF PauseResult(target) THEN 0 ELSE paused_reads
    /\ task' = IF target /\ audio_frames > 0 THEN OnSet(task) ELSE task
    /\ UNCHANGED <<audio_path, audio_frames, audio_sample_rate, current_frame,
                   volume, is_stopped, no_audio_loaded, is_window_focused,
                   display_frame_data, crashed, stopped_reads, lock>>

\* pause_audio or unpause_audio called on the controlling thread.
SetPause(target, op) ==
    /\ ctl.pc = "idle"
    /\ PauseEffect(target)
    /\ last' = Plain(op, 0)
    /\ UNCHANGED ctl
    /\ UNCHANGED widgets

\* pause_audio, lines 184-189.
pause_audio == SetPause(FALSE, "pause")

\* unpause_audio, lines 191-196.
unpause_audio == SetPause(TRUE, "unpause")

\* toggle_pause, lines 198-205, called on the controlling thread.
toggle_pause == SetPause(~is_playback_unpaused, "toggle_pause")

\* The image of the playback button after toggle_pause of Main_player.py
\* (lines 32-39).
Flipped(image) ==
    CASE image = "default" -> "toggle"
      [] image = "hover" -> "hover toggle"
      [] image = "toggle" -> "default"
      [] image = "hover toggle" -> "hover"

\* toggle_pause of Main_player.py, lines 28-39, on the keyboard listener's
\* thread (on_key_release, lines 55-63): audio_player.toggle_pause(), then
\* the button's image is flipped.  The call does not wait for the main
\* loop, so it also runs while start_audio_playback is in progress.
KeyTogglePause ==
    /\ PauseEffect(~is_playback_unpaused)
    /\ playback_button' = Flipped(playback_button)
    /\ last' = Plain("key", 0)
    /\ UNCHANGED <<ctl, media_display, is_shuffling>>

\* Lines 215-222 without the test of line 215.
SeekUnguarded(pos, pct) == SeekTarget(pos, pct)

\* The cursor after seek(pos, pct), lines 215-222.
SeekResult(pos, pct) ==
    IF audio_frames > 0 THEN SeekTarget(pos, pct) ELSE current_frame

\* seek assigning without taking self.lock.
SeekWithoutLock(pos, pct) ==
    /\ ctl.pc = "idle"
    /\ current_frame' = SeekResult(pos, pct)
    /\ task' = [t \in Live |->
                 IF audio_frames > 0 /\ task[t].reads = 0
                 THEN [task[t] EXCEPT !.seeked = TRUE] ELSE task[t]]
    /\ last' = Step("seek", 0, pos, pct, FALSE, FALSE, "")
    /\ UNCHANGED <<audio_path, audio_frames, audio_sample_rate, volume,
                   is_playback_unpaused, is_stopped, no_audio_loaded, ctl,
                   crashed, is_window_focused, display_frame_data,
                   paused_reads, stopped_reads, lock>>
    /\ UNCHANGED widgets

\* seek, lines 207-222; the assignment is made under self.lock.  (seeked:
\* history, a seek took effect after the start() call that spawned the task
\* began and before the task's first read.)
seek(pos, pct) ==
    /\ ctl.pc = "idle"
    /\ audio_frames > 0 => lock = Free
    /\ current_frame' = SeekResult(pos, pct)
    /\ task' = [t \in Live |->
                 IF audio_frames > 0 /\ task[t].reads = 0
                 THEN [task[t] EXCEPT !.seeked = TRUE] ELSE task[t]]
    /\ last' = Step("seek", 0, pos, pct, FALSE, FALSE, "")
    /\ UNCHANGED <<audio_path, audio_frames, audio_sample_rate, volume,
                   is_playback_unpaused, is_stopped, no_audio_loaded, ctl,
                   crashed, is_window_focused, display_frame_data,
                   paused_reads, stopped_reads, lock>>
    /\ UNCHANGED widgets

\* set_volume, lines 230-231, under self.lock.
set_volume(v) ==
    /\ ctl.pc = "idle"
    /\ lock = Free
    /\ volume' = ClampVolume(v)
    /\ last' = Step("set_volume", 0, <<v, 100>>, FALSE, FALSE, FALSE, "")
    /\ UNCHANGED <<audio_path, audio_frames, audio_sample_rate, current_frame,
                   is_playback_unpaused, is_stopped, no_audio_loaded, ctl,
                   task, crashed, is_window_focused, display_frame_data,
                   paused_reads, stopped_reads, lock>>
    /\ UNCHANGED widgets

\* What get_display_frames returns, lines 239-241: the buffer when
\* audio_frames > 0, else None.
DisplayResult == IF audio_frames > 0 THEN display_frame_data ELSE NoBuffer

\* get_display_frames, lines 232-241; the buffer is read under self.lock.
get_display_frames ==
    /\ ctl.pc = "idle"
    /\ audio_frames > 0 => lock = Free
    /\ last' = [Plain("get_display_frames", 0) EXCEPT !.ret = DisplayResult]
    /\ UNCHANGED <<session, ctl, task, crashed, paused_reads, stopped_reads,
                   lock>>
    /\ UNCHANGED widgets

\* The main loop reports the window's focus: is_window_focused.set() and
\* is_window_focused.clear().
SetFocus(f) ==
    /\ ctl.pc = "idle"
    /\ is_window_focused # f
    /\ is_window_focused' = f
    /\ last' = Plain(IF f THEN "focus" ELSE "unfocus", 0)
    /\ UNCHANGED <<audio_path, audio_frames, audio_sample_rate, current_frame,
                   volume, is_playback_unpaused, is_stopped, no_audio_loaded,
                   display_frame_data, ctl, task, crashed, paused_reads,
                   stopped_reads, lock>>
    /\ UNCHANGED widgets

-----------------------------------------------------------------------------
(* start_audio_stream_thread, lines 132-180.  task[t].pc names the line    *)
(* task t is about to execute; task[t].p says whether its local p is       *)
(* bound, task[t].file is the file it opened.  Statements that touch only  *)
(* the task's own locals and the device are taken together with the next   *)
(* statement that reads or writes the session.                             *)

\* Line 134: p = pyaudio.PyAudio(), which creates the device handle or raises.
\* When it raises, p is unbound in the finally block: p.terminate() (line 177)
\* raises in turn and the thread dies without running lines 178-180.
TaskCreateHandle(t) ==
    /\ t \in Live
    /\ task[t].pc = "t134"
    /\ \/ /\ task' = [task EXCEPT ![t].pc = "t135", ![t].p = TRUE]
          /\ last' = Plain("t134", t)
          /\ UNCHANGED crashed
       \/ /\ task' = Without(t)
          /\ last' = Raised("t134", t)
          /\ crashed' = TRUE
    /\ UNCHANGED <<session, ctl, paused_reads, stopped_reads, lock>>
    /\ UNCHANGED widgets

\* Lines 135-138: with sf.SoundFile(self.audio_path) as file, which raises when
\* the path names no readable file; then sf.info gives the sample rate and the
\* frame count.
TaskOpenFile(t) ==
    /\ t \in Live
    /\ task[t].pc = "t135"
    /\ IF audio_path \in Paths
       THEN /\ task' = [task EXCEPT ![t].pc = "t165", ![t].file = audio_path]
            /\ audio_sample_rate' = FileRate(audio_path)
            /\ audio_frames' = FileFrames(audio_path)
       ELSE /\ task' = [task EXCEPT ![t] = Cleanup(task[t])]
            /\ UNCHANGED <<audio_sample_rate, audio_frames>>
    /\ last' = IF audio_path \in Paths THEN Plain("t135", t)
                                       ELSE Raised("t135", t)
    /\ UNCHANGED <<audio_path, current_frame, volume, is_playback_unpaused,
                   is_stopped, no_audio_loaded, ctl, crashed,
                   is_window_focused, display_frame_data, paused_reads,
                   stopped_reads, lock>>
    /\ UNCHANGED widgets

\* Lines 165-171: stream = p.open(...); stream.start_stream().  Either may
\* raise; otherwise the device now invokes callback.
TaskOpenStream(t) ==
    /\ t \in Live
    /\ task[t].pc = "t165"
    /\ \/ /\ task' = [task EXCEPT ![t].pc = "t172", ![t].active = TRUE,
                                   ![t].cb = "wait"]
          /\ last' = Plain("t165", t)
       \/ /\ task' = [task EXCEPT ![t] = Cleanup(task[t])]
          /\ last' = Raised("t165", t)
    /\ UNCHANGED <<session, ctl, crashed, paused_reads, stopped_reads, lock>>
    /\ UNCHANGED widgets

\* Lines 172-175: while stream.is_active(): pass; stop_stream(); close().
TaskAwaitInactive(t) ==
    /\ t \in Live
    /\ task[t].pc = "t172"
    /\ ~task[t].active
    /\ task' = [task EXCEPT ![t] = Cleanup(task[t])]
    /\ last' = Plain("t172", t)
    /\ UNCHANGED <<session, ctl, crashed, paused_reads, stopped_reads, lock>>
    /\ UNCHANGED widgets

\* Lines 177-178: p.terminate(); self.no_audio_loaded.set()
TaskSignalNoAudio(t) ==
    /\ t \in Live
    /\ task[t].pc = "f178"
    /\ no_audio_loaded' = TRUE
    /\ task' = [task EXCEPT ![t].pc = "f179"]
    /\ last' = Plain("f178", t)
    /\ UNCHANGED <<audio_path, audio_frames, audio_sample_rate, current_frame,
                   volume, is_playback_unpaused, is_stopped, ctl, crashed,
                   is_window_focused, display_frame_data, paused_reads,
                   stopped_reads, lock>>
    /\ UNCHANGED widgets

\* Lines 179-180: with self.lock: self.current_frame = 0; the thread returns.
\* The step waits for the lock.
TaskResetCursor(t) ==
    /\ t \in Live
    /\ task[t].pc = "f179"
    /\ lock = Free
    /\ current_frame' = 0
    /\ task' = Without(t)
    /\ last' = Plain("f179", t)
    /\ UNCHANGED <<audio_path, audio_frames, audio_sample_rate, volume,
                   is_playback_unpaused, is_stopped, no_audio_loaded, ctl,
                   crashed, is_window_focused, display_frame_data,
                   paused_reads, stopped_reads, lock>>
    /\ UNCHANGED widgets

TaskStep(t) ==
    \/ TaskCreateHandle(t)
    \/ TaskOpenFile(t)
    \/ TaskOpenStream(t)
    \/ TaskAwaitInactive(t)
    \/ TaskSignalNoAudio(t)
    \/ TaskResetCursor(t)

-----------------------------------------------------------------------------
(* callback, lines 140-164, on the device thread of task t's stream.       *)
(* task[t].cb: "wait" at line 141, "chk" at line 142, "lock" at line 145;  *)
(* where the steps are taken apart, "blocked" and "woken" inside the wait   *)
(* of line 141 and "crit" at line 146 with the lock held.                   *)

\* Line 141 without the wait.
CbNoWait(t) ==
    /\ t \in Live
    /\ task[t].active
    /\ task[t].cb = "wait"
    /\ task' = [task EXCEPT ![t].cb = "chk"]
    /\ last' = Plain("cb141", t)
    /\ UNCHANGED <<session, ctl, crashed, paused_reads, stopped_reads, lock>>
    /\ UNCHANGED widgets

\* Line 141: self.is_playback_unpaused.wait()
CbWait(t) ==
    /\ t \in Live
    /\ task[t].active
    /\ task[t].cb = "wait"
    /\ is_playback_unpaused
    /\ task' = [task EXCEPT ![t].cb = "chk"]
    /\ last' = Plain("cb141", t)
    /\ UNCHANGED <<session, ctl, crashed, paused_reads, stopped_reads, lock>>
    /\ UNCHANGED widgets

\* Lines 142-143 without the test: the callback always goes on to the read.
CbIgnoreStopped(t) ==
    /\ t \in Live
    /\ task[t].active
    /\ task[t].cb = "chk"
    /\ task' = [task EXCEPT ![t].cb = "lock"]
    /\ last' = Plain("cb142", t)
    /\ UNCHANGED <<session, ctl, crashed, paused_reads, stopped_reads, lock>>
    /\ UNCHANGED widgets

\* Lines 142-143 placed after line 147: the cursor is advanced before the
\* stopped flag ends the stream.
CbStoppedAfterAdvance(t) ==
    /\ t \in Live
    /\ task[t].active
    /\ task[t].cb = "chk"
    /\ task' = IF is_stopped
               THEN [task EXCEPT ![t].cb = "off", ![t].active = FALSE]
               ELSE [task EXCEPT ![t].cb = "lock"]
    /\ current_frame' = IF is_stopped THEN current_frame + ChunkSize
                                      ELSE current_frame
    /\ last' = Step("cb142", t, <<0, 1>>, FALSE, FALSE, FALSE,
                    IF is_stopped THEN "stopped" ELSE "")
    /\ UNCHANGED <<audio_path, audio_frames, audio_sample_rate, volume,
                   is_playback_unpaused, is_stopped, no_audio_loaded,
                   is_window_focused, display_frame_data, ctl, crashed,
                   paused_reads, stopped_reads, lock>>
    /\ UNCHANGED widgets

\* Lines 142-143: if self.is_stopped.is_set(): return (None, paComplete)
CbCheckStopped(t) ==
    /\ t \in Live
    /\ task[t].active
    /\ task[t].cb = "chk"
    /\ task' = IF is_stopped
               THEN [task EXCEPT ![t].cb = "off", ![t].active = FALSE]
               ELSE [task EXCEPT ![t].cb = "lock"]
    /\ last' = Step("cb142", t, <<0, 1>>, FALSE, FALSE, FALSE,
                    IF is_stopped THEN "stopped" ELSE "")
    /\ UNCHANGED <<session, ctl, crashed, paused_reads, stopped_reads, lock>>
    /\ UNCHANGED widgets

\* Frames file.read returns at cursor c of task t's file (line 148).
FramesRead(t, c) ==
    IF FileFrames(task[t].file) - c < ChunkSize
    THEN FileFrames(task[t].file) - c ELSE ChunkSize

\* file.seek(c) raises when c lies outside the file (line 146).
SeekFails(t, c) == c < 0 \/ c > FileFrames(task[t].file)

\* Lines 155-162 storing the frames read whether or not any were read.
DisplayAlways(t, c) ==
    IF is_window_focused
    THEN [file |-> task[t].file, at |-> c + FramesRead(t, c)]
    ELSE display_frame_data

\* Lines 155-162 without the test of is_window_focused.
DisplayUnfocused(t, c) ==
    IF c + FramesRead(t, c) < FileFrames(task[t].file)
    THEN [file |-> task[t].file, at |-> c + FramesRead(t, c)]
    ELSE display_frame_data

\* The display buffer after a chunk was read at cursor c (lines 155-162): with
\* the window focused the frames that follow the chunk are read and stored;
\* when none follow, normalising the empty array raises ValueError, which is
\* swallowed, and the buffer stays.
DisplayAfter(t, c) ==
    IF is_window_focused /\ c + FramesRead(t, c) < FileFrames(task[t].file)
    THEN [file |-> task[t].file, at |-> c + FramesRead(t, c)]
    ELSE display_frame_data

\* Line 164 without the stored volume: every chunk at full scale.
ChunkScaleFull == ClampVolume(volume + 100)

\* The factor a chunk is multiplied by: self.volume as read at line 164.
ChunkScale == volume

\* Lines 146-164, the body of "with self.lock:".  file.seek raises on a cursor
\* outside the file, before the cursor is advanced; otherwise the cursor
\* advances by the requested frame count and the chunk is read.  An empty
\* chunk ends the stream: line 153 returns paComplete, unless the loudness
\* measurement of line 149 raised on the empty chunk first.  An exception in
\* the callback aborts the stream.  A chunk that is not empty is returned with
\* paContinue, multiplied by self.volume; when it holds fewer frames than
\* were requested the device either completes the stream or calls again (keep).
Chunk(t) ==
    /\ \E res \in {"continue", "eof", "abort"}, keep \in BOOLEAN :
         /\ res = "continue" <=>
              (~SeekFails(t, current_frame) /\ FramesRead(t, current_frame) > 0)
         /\ res = "eof" =>
              (~SeekFails(t, current_frame) /\ FramesRead(t, current_frame) = 0)
         /\ ~keep =>
              (res = "continue" /\ FramesRead(t, current_frame) < ChunkSize)
         /\ current_frame' = IF SeekFails(t, current_frame)
                             THEN current_frame
                             ELSE current_frame + ChunkSize
         /\ task' = IF res = "continue" /\ keep
                    THEN [task EXCEPT ![t].cb = "wait", ![t].reads = 1,
                                      ![t].seeked = FALSE]
                    ELSE [task EXCEPT ![t].cb = "off", ![t].active = FALSE,
                                      ![t].reads = 1, ![t].seeked = FALSE]
         /\ display_frame_data' = IF res = "continue"
                                  THEN DisplayAfter(t, current_frame)
                                  ELSE display_frame_data
         /\ last' = [Step("read", t, <<0, 1>>, FALSE, task[t].reads = 0,
                          task[t].seeked, res)
                       EXCEPT !.scale = IF res = "continue" THEN ChunkScale
                                                            ELSE 0]
    /\ paused_reads' = IF PauseInForce /\ paused_reads < 2
                       THEN paused_reads + 1 ELSE paused_reads
    /\ stopped_reads' = IF is_stopped /\ stopped_reads < 2
                        THEN stopped_reads + 1 ELSE stopped_reads
    /\ UNCHANGED <<audio_path, audio_frames, audio_sample_rate, volume,
                   is_playback_unpaused, is_stopped, no_audio_loaded, ctl,
                   crashed, is_window_focused>>
    /\ UNCHANGED widgets

\* Lines 145-164 taken as one step: the lock is acquired, the body runs and
\* the lock is released.
CbChunk(t) ==
    /\ t \in Live
    /\ task[t].active
    /\ task[t].cb = "lock"
    /\ lock = Free
    /\ Chunk(t)
    /\ UNCHANGED lock

\* Line 145: with self.lock, the acquisition.
CbAcquire(t) ==
    /\ t \in Live
    /\ task[t].active
    /\ task[t].cb = "lock"
    /\ lock = Free
    /\ lock' = t
    /\ task' = [task EXCEPT ![t].cb = "crit"]
    /\ last' = Plain("cb145", t)
    /\ UNCHANGED <<session, ctl, crashed, paused_reads, stopped_reads>>
    /\ UNCHANGED widgets

\* Lines 146-164 keeping the lock after the return.
CbCriticalKeepLock(t) ==
    /\ t \in Live
    /\ task[t].active
    /\ task[t].cb = "crit"
    /\ lock = t
    /\ Chunk(t)
    /\ UNCHANGED lock

\* Lines 146-164 with the lock held; every return and every exception
\* leaves the with block and releases it.
CbCritical(t) ==
    /\ t \in Live
    /\ task[t].active
    /\ task[t].cb = "crit"
    /\ lock = t
    /\ Chunk(t)
    /\ lock' = Free

\* Line 141 as Event.wait executes it, first half: under the event's own
\* condition lock the flag is tested; the callback goes on when it is set
\* and is registered as a waiter and blocks when it is clear.
CbEnterWait(t) ==
    /\ t \in Live
    /\ task[t].active
    /\ task[t].cb = "wait"
    /\ task' = [task EXCEPT
                  ![t].cb = IF is_playback_unpaused THEN "chk" ELSE "blocked"]
    /\ last' = Plain(IF is_playback_unpaused THEN "cb141" ELSE "block141", t)
    /\ UNCHANGED <<session, ctl, crashed, paused_reads, stopped_reads, lock>>
    /\ UNCHANGED widgets

\* Line 141, second half: a notified waiter returns from Event.wait,
\* whatever the flag has become since.
CbWake(t) ==
    /\ t \in Live
    /\ task[t].active
    /\ task[t].cb = "woken"
    /\ task' = [task EXCEPT ![t].cb = "chk"]
    /\ last' = Plain("wake141", t)
    /\ UNCHANGED <<session, ctl, crashed, paused_reads, stopped_reads, lock>>
    /\ UNCHANGED widgets

CbStep(t) ==
    \/ CbWait(t)
    \/ CbCheckStopped(t)
    \/ CbChunk(t)

-----------------------------------------------------------------------------
(* The widgets of the main loop (Main_player.py, UI_Widgets.py).  Their     *)
(* handlers run on the controlling thread, between two calls of             *)
(* start_audio_playback; an exception in one of them ends the main loop     *)
(* (ctl.pc = "dead").                                                       *)

\* Everything but the widgets and the history record.
engine == <<session, ctl, task, crashed, paused_reads, stopped_reads, lock>>

\* A step of a widget's handler and how it ended.
Ui(op, res) == Step(op, 0, <<0, 1>>, FALSE, FALSE, FALSE, res)

\* The main loop dies of an exception.
MainLoopDies ==
    /\ ctl' = [ctl EXCEPT !.pc = "dead"]
    /\ UNCHANGED <<session, task, crashed, paused_reads, stopped_reads, lock>>

\* Button.handle_mouse, lines 147-151 and 165-169: the image after the
\* mouse was found over the button or away from it.
Hovered(image, over) ==
    IF over
    THEN IF image \in {"toggle", "hover toggle"} THEN "hover toggle"
                                                  ELSE "hover"
    ELSE IF image = "hover" THEN "default"
         ELSE IF image = "hover toggle" THEN "toggle" ELSE image

\* Button.handle_mouse of the playback button, UI_Widgets.py lines 146-169,
\* with the callbacks of Main_player.py lines 166-167: a left click on the
\* button showing "hover toggle" untoggles it and calls unpause_audio, on
\* any other image it toggles it and calls pause_audio.
ButtonHandleMouse(over, click) ==
    /\ ctl.pc = "idle"
    /\ LET image == Hovered(playback_button, over)
       IN  IF over /\ click
           THEN /\ playback_button' = IF image = "hover toggle"
                                      THEN "hover" ELSE "hover toggle"
                /\ PauseEffect(image = "hover toggle")
           ELSE /\ playback_button' = image
                /\ UNCHANGED <<session, task, crashed, paused_reads,
                               stopped_reads, lock>>
    /\ last' = Ui("button", IF over /\ click THEN "click" ELSE "")
    /\ UNCHANGED <<ctl, media_display, is_shuffling>>

\* toggle_shuffle, Main_player.py lines 121-125 (the shuffler button's
\* callbacks).
toggle_shuffle ==
    /\ ctl.pc = "idle"
    /\ is_shuffling' = ~is_shuffling
    /\ last' = Ui("shuffle", "")
    /\ UNCHANGED <<engine, playback_button, media_display>>

\* The keys a track list can hold: the paths of the files, in the order
\* sorted() puts them.
TrackOrder == <<"A", "B", BadPath>>
Tracks == {TrackOrder[i] : i \in DOMAIN TrackOrder}

\* The mouse button newly pressed, as lines 455-460 find it: none, left or
\* right (the middle button is treated like none).
Clicks == {0, 1, 3}

\* Key a sorts before key b.
Before(a, b) ==
    \E i, j \in DOMAIN TrackOrder :
        TrackOrder[i] = a /\ TrackOrder[j] = b /\ i < j

\* sorted(keys), UI_Widgets.py lines 324 and 390.
Sorted(keys) == SelectSeq(TrackOrder, LAMBDA k : k \in keys)

\* The keys of media_display.button_dict.
Buttons == DOMAIN media_display.button_dict

\* The track list holding the buttons of dict, tb the keys whose button is
\* in toggled_buttons.  (Buttons that left the dictionary may stay in the
\* set; nothing reads them again.)
ButtonList(dict, tb) ==
    [button_dict |-> dict, sorted_keys |-> Sorted(DOMAIN dict),
     toggled_buttons |-> tb]

\* FileManager.load_media, media_handler.py lines 269-272, after a file
\* dialog returned files: ButtonList.update_buttons (UI_Widgets.py lines
\* 319-325) makes a new button for every one of them.
load_media(files) ==
    /\ ctl.pc = "idle"
    /\ media_display' =
         ButtonList([k \in Buttons \cup files |->
                        IF k \in files THEN "default"
                                       ELSE media_display.button_dict[k]],
                    media_display.toggled_buttons \ files)
    /\ last' = Ui("load_media", "")
    /\ UNCHANGED <<engine, playback_button, is_shuffling>>

\* ButtonList.handle_mouse, UI_Widgets.py lines 454-462 and 357-391, with
\* the mouse over the button of key over (NoPath: over none) and click the
\* mouse button newly pressed (0: none).  A left click on a hovered button
\* toggles it and calls on_button_toggle, which is start_audio_playback
\* (Main_player.py line 162); on a toggled button it untoggles it; either
\* way the other buttons of toggled_buttons go back to "default".  A right
\* click removes the button.
ListHandleMouse(over, click) ==
    /\ ctl.pc = "idle"
    /\ over \in Buttons \cup {NoPath}
    /\ LET dict == media_display.button_dict
           tb == media_display.toggled_buttons
           left == over \in Buttons /\ click = 1
           toggles == left /\ dict[over] = "hover"
           untoggles == left /\ dict[over] = "toggle"
           tb1 == IF toggles THEN tb \cup {over}
                  ELSE IF untoggles THEN tb \ {over} ELSE tb
           kept == IF over \in Buttons /\ click = 3
                   THEN Buttons \ {over} ELSE Buttons
           image(k) ==
               IF k = over
               THEN IF click = 1
                    THEN IF toggles THEN "toggle"
                         ELSE IF untoggles THEN "hover" ELSE dict[k]
                    ELSE IF click = 3 \/ dict[k] = "toggle"
                         THEN dict[k] ELSE "hover"
               ELSE IF (left /\ k \in tb1) \/ dict[k] # "toggle"
                    THEN "default" ELSE dict[k]
       IN  IF untoggles /\ over \notin tb
           THEN \* toggled_buttons.remove raises KeyError (line 374)
                /\ media_display' =
                     ButtonList([dict EXCEPT ![over] = "hover"], tb)
                /\ MainLoopDies
                /\ last' = Ui("list", "raise")
           ELSE /\ media_display' =
                     ButtonList([k \in kept |-> image(k)], tb1 \cap kept)
                /\ IF toggles THEN StartEnter(over) ELSE UNCHANGED engine
                /\ last' = Ui("list", IF toggles THEN "start" ELSE "")
    /\ UNCHANGED <<playback_button, is_shuffling>>

\* ButtonList.random_toggle, UI_Widgets.py lines 399-424: one of the
\* buttons that are not toggled is toggled and its file started, every
\* other button goes back to "default"; with every button toggled nothing
\* happens.
random_toggle ==
    LET dict == media_display.button_dict
        untoggled_buttons == {k \in Buttons : dict[k] # "toggle"}
    IN  IF untoggled_buttons = {}
        THEN /\ last' = Ui("advance", "none")
             /\ UNCHANGED <<engine, media_display>>
        ELSE \E random_button \in untoggled_buttons :
               /\ media_display' =
                    ButtonList([k \in Buttons |->
                                  IF k = random_button THEN "toggle"
                                                       ELSE "default"],
                               media_display.toggled_buttons
                                   \cup {random_button})
               /\ StartEnter(random_button)
               /\ last' = [Ui("advance", "start")
                             EXCEPT !.ret = [file |-> random_button,
                                             at |-> 0]]

\* Line 436 without the wrap to the first button.
NextIndexNoWrap(index, n) == IF index = n THEN n ELSE index + 1

\* next_index of line 436, (index + 1) % len(sorted_buttons), for positions
\* counted from 1.
NextIndex(index, n) == (index % n) + 1

\* ButtonList.sequential_toggle, UI_Widgets.py lines 426-452: the toggle
\* moves from the first toggled button of sorted_keys to the one after it;
\* with no button toggled the first one is toggled, which raises IndexError
\* on an empty list.  The file of the newly toggled button is started.
\* (last.ret: the key the toggle left, as file, and its position in
\* sorted_keys, as at.)
sequential_toggle ==
    LET dict == media_display.button_dict
        keys == media_display.sorted_keys
        toggled == {i \in DOMAIN keys : dict[keys[i]] = "toggle"}
        index == CHOOSE i \in toggled : \A j \in toggled : i <= j
        next_organizer == IF toggled = {} THEN keys[1]
                          ELSE keys[NextIndex(index, Len(keys))]
    IN  IF toggled = {} /\ keys = <<>>
        THEN /\ MainLoopDies
             /\ last' = Ui("advance", "raise")
             /\ UNCHANGED media_display
        ELSE /\ media_display' =
                  ButtonList(
                      [k \in Buttons |->
                          IF k = next_organizer THEN "toggle"
                          ELSE IF toggled # {} /\ k = keys[index]
                               THEN "default" ELSE dict[k]],
                      IF toggled = {}
                      THEN media_display.toggled_buttons
                               \cup {next_organizer}
                      ELSE {next_organizer})
             /\ StartEnter(next_organizer)
             /\ last' = [Ui("advance", "start")
                           EXCEPT !.ret =
                               IF toggled = {} THEN NoBuffer
                               ELSE [file |-> keys[index], at |-> index]]

\* Main_player.py lines 204-209, once per iteration of the main loop: with
\* no_audio_loaded set and a file loaded before, the next track is started.
AutoAdvance ==
    /\ ctl.pc = "idle"
    /\ IF no_audio_loaded /\ audio_frames > 0
       THEN IF is_shuffling THEN random_toggle ELSE sequential_toggle
       ELSE /\ last' = Ui("advance", "skip")
            /\ UNCHANGED <<engine, media_display>>
    /\ UNCHANGED <<playback_button, is_shuffling>>

-----------------------------------------------------------------------------
\* Lines 146-164 line by line, the lock held by the callback throughout.

\* display_frame_chunk_ratio as Main_player.py passes it.
DisplayRatio == 20

\* Frames the display read of line 157 returns at file position pos.
LookaheadRead(t, pos) ==
    IF FileFrames(task[t].file) - pos < DisplayRatio * ChunkSize
    THEN FileFrames(task[t].file) - pos ELSE DisplayRatio * ChunkSize

\* The invocation of task t ends without another one following: paComplete
\* was returned or an exception left the callback.
EndStream(t) ==
    [task EXCEPT ![t].cb = "off", ![t].active = FALSE, ![t].reads = 1,
                 ![t].seeked = FALSE, ![t].len = 0]

\* Line 146: file.seek(self.current_frame).  A cursor outside the file
\* raises; the exception leaves the with block and aborts the stream.
CbSeekFile(t) ==
    /\ t \in Live
    /\ task[t].active
    /\ task[t].cb = "crit"
    /\ lock = t
    /\ IF SeekFails(t, current_frame)
       THEN /\ task' = EndStream(t)
            /\ lock' = Free
            /\ last' = Step("read", t, <<0, 1>>, FALSE, task[t].reads = 0,
                            task[t].seeked, "abort")
       ELSE /\ task' = [task EXCEPT ![t].cb = "adv",
                                      ![t].fpos = current_frame]
            /\ lock' = lock
            /\ last' = Plain("cb146", t)
    /\ UNCHANGED <<session, ctl, crashed, paused_reads, stopped_reads>>
    /\ UNCHANGED widgets

\* Lines 147-148: self.current_frame += frame_count; data = file.read(...).
\* The read starts at the file's position (recorded in last.pos) and moves
\* it by the frames read.
CbAdvanceRead(t) ==
    /\ t \in Live
    /\ task[t].active
    /\ task[t].cb = "adv"
    /\ lock = t
    /\ current_frame' = current_frame + ChunkSize
    /\ task' = [task EXCEPT ![t].cb = "loud",
                            ![t].len = FramesRead(t, task[t].fpos),
                            ![t].fpos = @ + FramesRead(t, task[t].fpos)]
    /\ last' = Step("cb148", t, <<task[t].fpos, 1>>, FALSE,
                    task[t].reads = 0, task[t].seeked, "")
    /\ paused_reads' = IF PauseInForce /\ paused_reads < 2
                       THEN paused_reads + 1 ELSE paused_reads
    /\ stopped_reads' = IF is_stopped /\ stopped_reads < 2
                        THEN stopped_reads + 1 ELSE stopped_reads
    /\ UNCHANGED <<audio_path, audio_frames, audio_sample_rate, volume,
                   is_playback_unpaused, is_stopped, no_audio_loaded, ctl,
                   crashed, is_window_focused, display_frame_data, lock>>
    /\ UNCHANGED widgets

\* Line 149: target_loudness = self.find_target_loudness(data), on the
\* chunk as it was read.  On an empty chunk the measurement either returns
\* or raises (the block size handed to pyln.Meter is 0); the exception
\* leaves the with block and aborts the stream.
CbLoudness(t) ==
    /\ t \in Live
    /\ task[t].active
    /\ task[t].cb = "loud"
    /\ lock = t
    /\ \E raises \in BOOLEAN :
         /\ raises => task[t].len = 0
         /\ task' = IF raises THEN EndStream(t)
                              ELSE [task EXCEPT ![t].cb = "zero"]
         /\ lock' = IF raises THEN Free ELSE lock
         /\ last' = Step("cb149", t, <<task[t].len, 1>>, FALSE, FALSE, FALSE,
                         IF raises THEN "raise" ELSE "")
    /\ UNCHANGED <<session, ctl, crashed, paused_reads, stopped_reads>>
    /\ UNCHANGED widgets

\* Lines 151-153: data[data == 0] = 1e-12; an empty chunk returns
\* (None, paComplete).
CbZeroFix(t) ==
    /\ t \in Live
    /\ task[t].active
    /\ task[t].cb = "zero"
    /\ lock = t
    /\ IF task[t].len = 0
       THEN /\ task' = EndStream(t)
            /\ lock' = Free
            /\ last' = Step("read", t, <<0, 1>>, FALSE, task[t].reads = 0,
                            task[t].seeked, "eof")
       ELSE /\ task' = [task EXCEPT ![t].cb = "norm"]
            /\ lock' = lock
            /\ last' = Plain("cb151", t)
    /\ UNCHANGED <<session, ctl, crashed, paused_reads, stopped_reads>>
    /\ UNCHANGED widgets

\* Lines 155-164 moving the cursor along with the display read.
CbFinishAdvancing(t) ==
    /\ t \in Live
    /\ task[t].active
    /\ task[t].cb = "norm"
    /\ lock = t
    /\ current_frame' = IF is_window_focused
                        THEN current_frame + LookaheadRead(t, task[t].fpos)
                        ELSE current_frame
    /\ display_frame_data' = DisplayAfter(t, task[t].fpos - task[t].len)
    /\ task' = [task EXCEPT ![t].cb = "wait", ![t].reads = 1,
                            ![t].seeked = FALSE, ![t].len = 0]
    /\ last' = [Step("read", t, <<0, 1>>, FALSE, task[t].reads = 0,
                     task[t].seeked, "continue")
                  EXCEPT !.scale = ChunkScale]
    /\ lock' = Free
    /\ UNCHANGED <<audio_path, audio_frames, audio_sample_rate, volume,
                   is_playback_unpaused, is_stopped, no_audio_loaded, ctl,
                   crashed, is_window_focused, paused_reads, stopped_reads>>
    /\ UNCHANGED widgets

\* Lines 155-164: with the window focused the frames that follow the chunk
\* are read for the display, which moves the file's position and nothing
\* else; the chunk is normalised and returned with paContinue, multiplied by
\* self.volume.  Given fewer frames than it asked for the device either
\* completes the stream or calls again (keep).
CbFinish(t) ==
    /\ t \in Live
    /\ task[t].active
    /\ task[t].cb = "norm"
    /\ lock = t
    /\ \E keep \in BOOLEAN :
         /\ ~keep => task[t].len < ChunkSize
         /\ task' =
              IF keep
              THEN [task EXCEPT
                      ![t].cb = "wait", ![t].reads = 1, ![t].seeked = FALSE,
                      ![t].len = 0,
                      ![t].fpos = IF is_window_focused
                                  THEN @ + LookaheadRead(t, @) ELSE @]
              ELSE EndStream(t)
    /\ display_frame_data' = DisplayAfter(t, task[t].fpos - task[t].len)
    /\ last' = [Step("read", t, <<0, 1>>, FALSE, task[t].reads = 0,
                     task[t].seeked, "continue")
                  EXCEPT !.scale = ChunkScale]
    /\ lock' = Free
    /\ UNCHANGED <<audio_path, audio_frames, audio_sample_rate, current_frame,
                   volume, is_playback_unpaused, is_stopped, no_audio_loaded,
                   ctl, crashed, is_window_focused, paused_reads,
                   stopped_reads>>
    /\ UNCHANGED widgets

-----------------------------------------------------------------------------
(* The arithmetic of lines 95-104 and 151-163 on one chunk, in exact         *)
(* rationals.  What the libraries compute is an input: the integrated        *)
(* loudness of the chunk (pyln.Meter), the multiplier of line 102 (a         *)
(* fractional power of the chunk's standard deviation) and the peak scale    *)
(* 10 ** (target / 20) that pyln.normalize.peak brings the chunk's largest   *)
(* magnitude to.                                                             *)

\* Integrated loudness of a chunk, in dB.
LoudnessLevels == {0 - 100, 0 - 70, 0 - 35, 0, 5}
\* audio_std_target_loudness of line 102, as <<numerator, denominator>>.
StdMultipliers == {<<39, 40>>, <<1, 1>>, <<6, 5>>}
\* Peak scales, as <<numerator, denominator>>.
PeakScales == {<<1, 100>>, <<1, 10>>, <<1, 1>>}
\* Samples read from the file; the unit is the 1e-12 of line 151.
Samples == {0 - 20, 0 - 3, 0, 1, 7, 20}

Abs(x) == IF x < 0 THEN 0 - x ELSE x

\* loudness_point of line 95: max(min(loudness, 0), -input_range).
LoudnessPoint(l) == IF l > 0 THEN 0 ELSE IF l < 0 - 70 THEN 0 - 70 ELSE l

\* Lines 96-98 with the default arguments: 40 * (point + 70) / 69 - 50, as
\* numerator over the denominator 69.
PointTarget(l) == 40 * (LoudnessPoint(l) + 70) - 50 * 69

\* target_loudness of line 104, min(point target * multiplier, 0), as the
\* numerator over the denominator 69 * m[2].
TargetLoudness(l, m) ==
    IF PointTarget(l) * m[1] > 0 THEN 0 ELSE PointTarget(l) * m[1]

\* data[data == 0] = 1e-12, line 151.
ZeroFix(x) == IF x = 0 THEN 1 ELSE x

\* The largest magnitude of the chunk, np.max(np.abs(data)).
Peak(data) ==
    IF Abs(data[1]) > Abs(data[2]) THEN Abs(data[1]) ELSE Abs(data[2])

\* Line 163 with the weights 0.9 and 0.9.
BlendHeavy(x, peak, ps) == 9 * ps[1] * x + 9 * ps[2] * peak * x

\* Line 163 for one sample x: (ps / peak) * x * 0.9 + 0.1 * x, as the
\* numerator over the denominator 10 * ps[2] * peak.
Blend(x, peak, ps) == 9 * ps[1] * x + ps[2] * peak * x

\* The chunk <<x1, x2>> through lines 149-163: the target loudness, the
\* chunk after line 151 and the samples of normalized_data.
normalize_chunk(l, m, ps, x1, x2) ==
    /\ ctl.pc = "idle"
    /\ LET data == <<ZeroFix(x1), ZeroFix(x2)>>
       IN  last' = [Step("normalize", 0, <<TargetLoudness(l, m), 69 * m[2]>>,
                         FALSE, FALSE, FALSE, "")
                      EXCEPT !.ret =
                          [data |-> data, ps |-> ps,
                           out |-> <<Blend(data[1], Peak(data), ps),
                                     Blend(data[2], Peak(data), ps)>>]]
    /\ UNCHANGED <<session, ctl, task, crashed, paused_reads, stopped_reads,
                   lock>>
    /\ UNCHANGED widgets

-----------------------------------------------------------------------------
\* The calls of the controlling thread, set_volume aside.
Control ==
    \/ \E path \in Paths \cup {NoPath} : StartCall(path)
    \/ StartStep
    \/ pause_audio
    \/ unpause_audio
    \/ toggle_pause
    \/ \E pos \in Fractions : seek(pos, TRUE)
    \/ \E pos \in FramePositions : seek(pos, FALSE)

\* The stream tasks and the device threads.
Engine ==
    \/ \E t \in Slots : TaskStep(t)
    \/ \E t \in Slots : CbStep(t)

Next ==
    \/ Control
    \/ \E v \in Volumes : set_volume(v)
    \/ Engine

Spec == Init /\ [][Next]_vars

\* The device invokes the callback while the stream is active, every stream
\* task runs on its own thread, and a start_audio_playback call in progress
\* keeps running; whether and when a call is made is up to the user.
Fairness ==
    /\ WF_vars(StartStep)
    /\ \A t \in Slots : WF_vars(TaskStep(t)) /\ WF_vars(CbStep(t))

\* The engine under fair scheduling.  set_volume is left out: no step that
\* decides progress reads the volume.
LiveNext == Control \/ Engine

FairSpec == Init /\ [][LiveNext]_vars /\ Fairness

\* Loading and showing: files that open and one that does not, the window's
\* focus and the visualizer's reads of the display buffer.
LoadNext ==
    \/ \E path \in Paths \cup {NoPath, BadPath} : StartCall(path)
    \/ StartStep
    \/ \E f \in BOOLEAN : SetFocus(f)
    \/ get_display_frames
    \/ Engine

LoadSpec == Init /\ [][LoadNext]_vars

\* A player created with any volume, playing while the volume is set.
VolumeNext ==
    \/ \E path \in Paths : StartCall(path)
    \/ StartStep
    \/ \E v \in Volumes : set_volume(v)
    \/ Engine

VolumeSpec == InitAnyVolume /\ [][VolumeNext]_vars

\* Chunks of every loudness and content through the normalisation.
NormNext ==
    \E l \in LoudnessLevels, m \in StdMultipliers, ps \in PeakScales,
       x1 \in Samples, x2 \in Samples : normalize_chunk(l, m, ps, x1, x2)

NormSpec == Init /\ [][NormNext]_vars

\* The callback with the wait of line 141 taken apart.
CbWaitStep(t) ==
    \/ CbEnterWait(t)
    \/ CbWake(t)
    \/ CbCheckStopped(t)
    \/ CbChunk(t)

\* Pausing and resuming a stream whose callback blocks in Event.wait.
WakeNext ==
    \/ \E path \in Paths : StartCall(path)
    \/ StartStep
    \/ pause_audio
    \/ unpause_audio
    \/ toggle_pause
    \/ \E t \in Slots : TaskStep(t)
    \/ \E t \in Slots : CbWaitStep(t)

WakeFairness ==
    /\ WF_vars(StartStep)
    /\ \A t \in Slots : WF_vars(TaskStep(t)) /\ WF_vars(CbWaitStep(t))

WakeSpec == Init /\ [][WakeNext]_vars /\ WakeFairness

\* The keyboard listener pausing and resuming while the main loop loads
\* files, the callback blocking in Event.wait.
KeyNext ==
    \/ \E path \in Paths : StartCall(path)
    \/ StartStep
    \/ KeyTogglePause
    \/ \E t \in Slots : TaskStep(t)
    \/ \E t \in Slots : CbWaitStep(t)

\* Fair scheduling of the call, the stream tasks and the callbacks; nothing
\* obliges the user to press a key.
KeySpec == Init /\ [][KeyNext]_vars /\ WakeFairness

\* The playback button and the keyboard against loads of files.
ButtonNext ==
    \/ \E path \in Paths : StartCall(path)
    \/ StartStep
    \/ \E over \in BOOLEAN, click \in BOOLEAN : ButtonHandleMouse(over, click)
    \/ KeyTogglePause
    \/ \E t \in Slots : TaskStep(t)
    \/ \E t \in Slots : CbStep(t)

ButtonSpec == Init /\ [][ButtonNext]_vars

\* The track list: files loaded into it, the mouse on its buttons, the
\* shuffle flag and the main loop advancing to the next track.
ListNext ==
    \/ \E files \in SUBSET Tracks : load_media(files)
    \/ \E over \in Tracks \cup {NoPath}, click \in Clicks :
           ListHandleMouse(over, click)
    \/ toggle_shuffle
    \/ AutoAdvance
    \/ StartStep
    \/ \E t \in Slots : TaskStep(t)
    \/ \E t \in Slots : CbStep(t)

ListSpec == Init /\ [][ListNext]_vars

\* The callback with the acquisition of self.lock taken apart.
CbLockStep(t) ==
    \/ CbWait(t)
    \/ CbCheckStopped(t)
    \/ CbAcquire(t)
    \/ CbCritical(t)

\* The controlling thread's locked operations against the callback's
\* critical section.
LockNext ==
    \/ \E path \in Paths : StartCall(path)
    \/ StartStep
    \/ pause_audio
    \/ unpause_audio
    \/ seek(<<1, 2>>, TRUE)
    \/ \E v \in Volumes : set_volume(v)
    \/ get_display_frames
    \/ \E t \in Slots : TaskStep(t)
    \/ \E t \in Slots : CbLockStep(t)

LockSpec == Init /\ [][LockNext]_vars

\* The callback with the body of the with block taken line by line.
CbBodyStep(t) ==
    \/ CbWait(t)
    \/ CbCheckStopped(t)
    \/ CbAcquire(t)
    \/ CbSeekFile(t)
    \/ CbAdvanceRead(t)
    \/ CbLoudness(t)
    \/ CbZeroFix(t)
    \/ CbFinish(t)

\* Seeking, pausing and changing focus against the lines of the callback.
BodyNext ==
    \/ \E path \in Paths : StartCall(path)
    \/ StartStep
    \/ pause_audio
    \/ unpause_audio
    \/ seek(<<1, 2>>, TRUE)
    \/ \E f \in BOOLEAN : SetFocus(f)
    \/ \E t \in Slots : TaskStep(t)
    \/ \E t \in Slots : CbBodyStep(t)

BodySpec == Init /\ [][BodyNext]_vars

-----------------------------------------------------------------------------
(* Properties. *)

\* C1: a start() call made while a file is streaming and paused eventually
\* returns, with the new stream task spawned, when the callback, the stream
\* task and the call itself keep being scheduled.
StartWhilePausedReturns ==
    (ctl.pc # "idle" /\ ctl.swap) ~> (ctl.pc = "idle" /\ last.op = "spawn")

\* A start() call made while a stream was active and paused has returned, the
\* pause restored.
StartWhilePausedReturned ==
    ctl.pc = "idle" /\ ctl.swap /\ last.op = "spawn" /\ ~is_playback_unpaused

\* C2: at most one stream task exists at any time, from its spawn to the end
\* of its cleanup.
OneStreamTaskAtATime == Len(task) <= 1

\* C3: once start() has seen no_audio_loaded set (line 122), every stream task
\* spawned before has finished its cleanup: none has a write to current_frame
\* ahead of it.
BarrierMeansCleanupDone ==
    ctl.pc \in {"s124", "s126", "s129", "s130", "s181"} => Len(task) = 0

\* C4: the first chunk read of every stream starts at frame 0, unless a seek
\* took effect after the start() call that spawned the stream began.
FirstReadFromZero ==
    [][(last'.op = "read" /\ last'.first /\ ~last'.seeked)
            => current_frame = 0]_vars

\* C5: no stream task ends without having set no_audio_loaded and reset
\* current_frame.
CleanupAlwaysCompletes == ~crashed

\* C6: after the callback has signalled end-of-stream on an exhausted file,
\* eventually no_audio_loaded is set and current_frame is 0.
EndOfFileLeadsToUnloaded ==
    (last.op = "read" /\ last.res = "eof")
        ~> (no_audio_loaded /\ current_frame = 0)

\* C7: once a file is loaded the cursor lies within the file.
CursorWithinFile ==
    audio_frames > 0 => (0 <= current_frame /\ current_frame <= audio_frames)

\* C8: with a file loaded, seek() leaves the cursor within [0, total_frames].
SeekClamps ==
    (last.op = "seek" /\ audio_frames > 0) =>
        (0 <= current_frame /\ current_frame <= audio_frames)

\* The position of the last seek, as numerator and denominator.
LastNum == last.pos[1]
LastDen == last.pos[2]

\* C9: with a file of N frames loaded, seek(p, percentage) for 0 <= p <= 1 sets
\* the cursor to the integer part of N * p, and seek(f, frames) for 0 <= f <= N
\* to the integer part of f.
SeekTruncates ==
    /\ (last.op = "seek" /\ audio_frames > 0 /\ last.pct
            /\ 0 <= LastNum /\ LastNum <= LastDen) =>
         /\ current_frame * LastDen <= audio_frames * LastNum
         /\ audio_frames * LastNum < (current_frame + 1) * LastDen
    /\ (last.op = "seek" /\ audio_frames > 0 /\ ~last.pct
            /\ 0 <= LastNum /\ LastNum <= audio_frames * LastDen) =>
         /\ current_frame * LastDen <= LastNum
         /\ LastNum < (current_frame + 1) * LastDen

\* seek(0.5) has just run on the file of 1000 frames and left the cursor at 500.
SeekHalfDone ==
    /\ last.op = "seek" /\ last.pct /\ last.pos = <<1, 2>>
    /\ audio_frames = 1000 /\ current_frame = 500

\* C10: seek() while no file is loaded changes nothing of the session, the
\* start() call or the stream tasks.
SeekIgnoredWhenUnloaded ==
    [][(last'.op = "seek" /\ audio_frames = 0) =>
            UNCHANGED <<session, ctl, task, crashed>>]_vars

\* seek() to a frame other than the cursor has just run with no file loaded.
SeekDoneUnloaded ==
    last.op = "seek" /\ audio_frames = 0 /\ ~last.pct /\ last.pos = <<0 - 5, 1>>

\* C11: the stored volume lies in [0,1] in every state, whatever volume the
\* player was created with and whatever was passed to set_volume, and every
\* chunk the callback returns was scaled by a factor in [0,1].
VolumeInUnitRange ==
    /\ 0 <= volume /\ volume <= 100
    /\ (last.op = "read" /\ last.res = "continue") =>
           (0 <= last.scale /\ last.scale <= 100)

\* C12: set_volume(v) stores min(max(v, 0), 1) and changes nothing else.
SetVolumeClamps ==
    [][(last'.op = "set_volume") =>
         /\ last'.pos[1] < 0 => volume' = 0
         /\ last'.pos[1] > 100 => volume' = 100
         /\ (0 <= last'.pos[1] /\ last'.pos[1] <= 100) =>
                volume' = last'.pos[1]
         /\ UNCHANGED <<audio_path, audio_frames, audio_sample_rate,
                        current_frame, is_playback_unpaused, is_stopped,
                        no_audio_loaded, is_window_focused,
                        display_frame_data, ctl, task, crashed,
                        paused_reads>>]_vars

\* set_volume(5) has just run and stored 1.
SetVolumeFiveDone == last.op = "set_volume" /\ last.pos[1] = 500 /\ volume = 100

\* C13: pause_audio, unpause_audio and toggle_pause called while
\* audio_frames = 0 leave is_playback_unpaused as it was.
PauseIgnoredWhenUnloaded ==
    [][(last'.op \in {"pause", "unpause", "toggle_pause"} /\ audio_frames = 0)
            => UNCHANGED is_playback_unpaused]_vars

\* toggle_pause has just run with no file loaded.
ToggleDoneUnloaded ==
    last.op = "toggle_pause" /\ audio_frames = 0 /\ is_playback_unpaused

\* C14: a pause_audio that directly follows a pause_audio changes nothing,
\* and an unpause_audio that directly follows an unpause_audio changes nothing.
PauseIdempotent ==
    [][(last.op \in {"pause", "unpause"} /\ last'.op = last.op)
            => UNCHANGED <<session, ctl, task, crashed, paused_reads>>]_vars

\* pause_audio has just paused a loaded file and can be called again.
PausedOnce ==
    /\ last.op = "pause" /\ audio_frames > 0 /\ ~is_playback_unpaused
    /\ ctl.pc = "idle"

\* C15: when a stream task has finished its cleanup, audio_path is None and
\* audio_sample_rate, audio_frames and current_frame are 0.
FieldsResetAfterStream ==
    last.op = "f179" =>
        /\ audio_path = NoPath
        /\ audio_sample_rate = 0
        /\ audio_frames = 0
        /\ current_frame = 0

\* C16: once a load has failed and its task is gone, with no call in
\* progress, no_audio_loaded is set and audio_path does not name the file
\* that failed to open.
LoadFailureLeavesNothing ==
    (Len(task) = 0 /\ ctl.pc = "idle" /\ ~crashed) =>
        (no_audio_loaded /\ audio_path # BadPath)

\* C17: the output device fails to open only while the start_audio_playback
\* call is still in progress, so that the call can report the failure.
DeviceFailureInsideStart ==
    (last.op \in {"t134", "t165"} /\ last.res = "raise") => ctl.pc # "idle"

\* C18: get_display_frames returns None whenever no_audio_loaded is set.
DisplayNoneWhenUnloaded ==
    (last.op = "get_display_frames" /\ no_audio_loaded) => last.ret = NoBuffer

\* C19: no step that holds the lock on another thread (the cursor reset of a
\* stream task, the locked body of the callback) runs while
\* start_audio_playback has applied some but not all of lines 127, 129, 130.
StartUpdatesAtomic ==
    last.op \in {"f179", "read"} => ctl.pc \notin {"s129", "s130"}

\* C20: the callback passes line 141 only while is_playback_unpaused is set,
\* and at most one chunk is read while a pause is in force.
PauseHaltsProduction ==
    [][(last'.op = "cb141" => is_playback_unpaused) /\ paused_reads' <= 1]_vars

\* The chunk in flight when pause_audio returned has been read, and the
\* callback is back at its wait.
InFlightChunkRead ==
    /\ last.op = "read" /\ ~is_playback_unpaused /\ paused_reads = 1
    /\ \E t \in Live : task[t].active /\ task[t].cb = "wait"

\* C21: a callback that was blocked in the wait of line 141 when the event
\* was set returns from the wait, under fair scheduling, even when the event
\* is cleared again before the callback runs.
WakeUpNotMissed ==
    (\E t \in Live : task[t].cb \in {"blocked", "woken"}
                      /\ is_playback_unpaused)
        ~> (last.op = "wake141")

\* A callback has returned from the wait it was blocked in although the
\* event had been cleared again by then.
WokenDespiteNewPause == last.op = "wake141" /\ ~is_playback_unpaused

\* C22: while is_stopped is set the active stream reads at most one more
\* chunk, a callback that tests the flag while it is set ends its stream, and
\* the flag stays set as long as a start_audio_playback call is in progress
\* and a stream is active.
CancellationBounded ==
    /\ stopped_reads <= 1
    /\ (last.op = "cb142" /\ is_stopped) =>
           (last.res = "stopped" /\ ~task[last.t].active)
    /\ (ctl.pc # "idle" /\ Streaming) => is_stopped

\* The chunk in flight when is_stopped was set has been read, and the next
\* invocation of the callback has ended the stream.
StoppedAfterOneChunk ==
    last.op = "cb142" /\ last.res = "stopped" /\ stopped_reads = 1

\* C23: a callback that finds is_stopped set ends its stream and leaves
\* current_frame, the display buffer and the volume unchanged.
StoppedCallbackReadsNothing ==
    [][(last'.op = "cb142" /\ last'.res = "stopped") =>
          /\ UNCHANGED <<current_frame, display_frame_data, volume>>
          /\ ~task'[last'.t].active]_vars

\* A callback has found is_stopped set in the middle of a file, with a
\* display buffer stored.
StoppedMidFile ==
    /\ last.op = "cb142" /\ last.res = "stopped"
    /\ current_frame = ChunkSize /\ display_frame_data # NoBuffer

\* C24: start_audio_playback keeps the event set during its wait, and from
\* the end of the wait to its return the event has the value it had at
\* entry and no stream is active; a stream spawned with the event clear
\* reads no chunk until the event is set.
PauseKeptAcrossSwap ==
    /\ ctl.pc \in {"s122", "s124"} => is_playback_unpaused
    /\ (ctl.pc \in {"s126", "s129", "s130", "s181"} \/ last.op = "spawn") =>
           is_playback_unpaused = ctl.is_unpaused
    /\ ctl.pc \in {"s126", "s129", "s130", "s181"} => ~Streaming
    /\ \A t \in Live : task[t].held => task[t].reads = 0

\* The stream spawned by a start_audio_playback call made while paused has
\* been opened and its callback is held at the wait.
NewStreamHeld ==
    /\ ctl.pc = "idle" /\ ctl.swap /\ ~is_playback_unpaused
    /\ \E t \in Live : task[t].held /\ task[t].active /\ task[t].cb = "wait"

\* C25: a chunk read that returns fewer frames than were requested is
\* answered with end-of-stream, not with paContinue.
ShortReadEndsStream ==
    (last.op = "read" /\ last.res = "continue") =>
        FramesRead(last.t, current_frame - ChunkSize) = ChunkSize

DisplayOnlyWhenFocused ==
    [][~is_window_focused => UNCHANGED display_frame_data]_vars

\* A chunk was read in the middle of a file with the window not focused.
ChunkReadUnfocused ==
    /\ last.op = "read" /\ last.res = "continue" /\ ~is_window_focused
    /\ current_frame < audio_frames

\* C28: every chunk is scaled by one volume, the one stored when the
\* callback ran its critical section: the value of the last set_volume that
\* returned before the callback took the lock.
ChunkScaledByStoredVolume ==
    (last.op = "read" /\ last.res = "continue") => last.scale = volume

\* A chunk has been scaled by the volume a set_volume(0.5) stored.
ChunkScaledByHalf ==
    last.op = "read" /\ last.res = "continue" /\ last.scale = 50

\* C29: for every chunk the target loudness is at most 0 dB, and every
\* sample of the normalised and blended chunk is in magnitude at most the
\* peak scale plus a tenth of the magnitude of the sample it comes from.
\* (Both sides are numerators over 10 * ps[2] * peak.)
NormalizedChunkBounded ==
    last.op = "normalize" =>
        /\ last.pos[1] <= 0
        /\ \A i \in {1, 2} :
             Abs(last.ret.out[i]) <=
                 10 * last.ret.ps[1] * Peak(last.ret.data)
                   + last.ret.ps[2] * Peak(last.ret.data)
                       * Abs(last.ret.data[i])

\* A chunk holding a zero sample and its largest sample has been
\* normalised to the peak scale 1/10.
QuietChunkNormalized ==
    /\ last.op = "normalize"
    /\ last.ret.data = <<1, 20>> /\ last.ret.ps = <<1, 10>>
    /\ last.pos[1] < 0

\* C30: the lock is held only by a callback inside lines 146-164, never by
\* one at the wait of line 141, and it is free whenever the event is clear
\* and the callback is at the wait.
LockFreeAtPauseWait ==
    /\ lock # Free => (lock \in Live /\ task[lock].cb = "crit")
    /\ (~is_playback_unpaused
          /\ \A t \in Live : task[t].active => task[t].cb = "wait")
         => lock = Free

\* seek has completed while the callback of the active stream was held at
\* the wait.
SeekDoneWhilePaused ==
    /\ last.op = "seek" /\ ~is_playback_unpaused
    /\ \E t \in Live : task[t].active /\ task[t].cb = "wait"

\* C31: the lock is not held while the target loudness of a chunk is
\* computed: a callback about to execute line 149 has released it.
LoudnessOutsideLock ==
    \A t \in Live : task[t].cb = "loud" => lock # t

\* C32: the target loudness is computed only on a chunk that is not empty
\* and only after its zero samples have been replaced (line 151).
LoudnessOnFixedNonEmptyChunk ==
    last.op = "cb149" =>
        (last.pos[1] > 0 /\ task[last.t].cb # "zero")

\* C33: no seek comes between lines 146 and 148: the chunk is read from the
\* cursor value the callback advanced from, so a seek to t concurrent with
\* the chunk leaves the cursor at t or at t + frame_count.
ChunkReadAtomicWithSeek ==
    /\ last.op = "cb148" => last.pos[1] = current_frame - ChunkSize
    /\ \A t \in Live : task[t].cb = "adv" => task[t].fpos = current_frame

\* A chunk has been read at the position a seek to the middle of file B
\* set, and the cursor is one chunk further.
ChunkReadAfterSeek ==
    /\ last.op = "cb148"
    /\ task[last.t].file = "B"
    /\ last.pos[1] = FileFrames("B") \div 2
    /\ current_frame = (FileFrames("B") \div 2) + ChunkSize

\* C34: the part of the callback that reads the display frames and returns
\* the chunk leaves current_frame as line 147 set it, focused or not, and
\* line 146 of every invocation puts the file at current_frame, wherever
\* the display read left it.
CursorAdvancesByChunkOnly ==
    /\ [](last.op = "cb146" => task[last.t].fpos = current_frame)
    /\ [][(last'.op = "read" /\ last'.res = "continue")
            => current_frame' = current_frame]_vars

\* A chunk has been returned with the window focused and the display read
\* has left the file beyond the cursor.
LookaheadMovedFile ==
    /\ last.op = "read" /\ last.res = "continue"
    /\ is_window_focused
    /\ task[last.t].active
    /\ task[last.t].fpos > current_frame

\* C35: with the keyboard listener pausing and resuming at any moment, a
\* start_audio_playback call in progress eventually returns, provided the
\* call, the stream tasks and the callbacks keep being scheduled (and no
\* stream task died in its cleanup, C5).
StartReturnsDespiteKeyPauses ==
    (ctl.pc # "idle" /\ ~crashed) ~> (ctl.pc = "idle" \/ crashed)

\* C37: between the calls of the main loop the playback button shows a
\* toggled image exactly when is_playback_unpaused is clear.
ButtonMatchesEngine ==
    ctl.pc = "idle" =>
        (playback_button \in {"toggle", "hover toggle"}
            <=> ~is_playback_unpaused)

\* C36: whenever the main loop finds no_audio_loaded set and a file loaded
\* before, it starts a track.
AutoAdvanceStartsTrack ==
    (last.op = "advance" /\ last.res # "skip") => last.res = "start"

\* C38: at most one button of the track list shows "toggle", and
\* sequential_toggle moves the toggle from a toggled button to the button
\* of the next key in sorted order, from the last key to the first.
TrackListExclusive ==
    /\ Cardinality({k \in Buttons :
                       media_display.button_dict[k] = "toggle"}) <= 1
    /\ (last.op = "advance" /\ last.res = "start" /\ ~is_shuffling
          /\ last.ret # NoBuffer) =>
           LET later == {k \in Buttons : Before(last.ret.file, k)}
           IN  /\ media_display.button_dict[ctl.path] = "toggle"
               /\ \A k \in Buttons \ {ctl.path} :
                      media_display.button_dict[k] # "toggle"
               /\ IF later = {}
                  THEN \A k \in Buttons : ~Before(k, ctl.path)
                  ELSE ctl.path \in later
                       /\ \A k \in later : ~Before(k, ctl.path)

\* sequential_toggle has moved the toggle from the last key of a list of
\* two to the first.
SequentialWrapped ==
    /\ last.op = "advance" /\ last.res = "start" /\ ~is_shuffling
    /\ Buttons = {"A", "B"}
    /\ last.ret.file = "B"
    /\ ctl.path = "A"

====
